---- MODULE Spec2Model ----
(***************************************************************************)
(* A model of the TSP solvers of src/algorithms.py: approx_tsp_tour,       *)
(* held_karp, christofides, two_opt, three_opt and fuzzopt, selected as in *)
(* src/main.py.  Cities are labelled 1..n; the distance between two cities *)
(* is an entry of a symmetric matrix D with a zero diagonal.  Python lists *)
(* are sequences: Python position p of a list is position p+1 here.        *)
(***************************************************************************)
EXTENDS Integers, Sequences, FiniteSets, TLC

VARIABLES n, D, alg, pc,
          visited, adj, heap,
          unmatched, stack, circuit,
          dp, size,
          max_iterations, x, fx, iteration, u, v,
          tour, best_tour, best_length, improved,
          result

vars == <<n, D, alg, pc, visited, adj, heap, unmatched, stack, circuit,
          dp, size, max_iterations, x, fx, iteration, u, v,
          tour, best_tour, best_length, improved, result>>

primVars == <<visited, adj, heap>>
chrVars == <<unmatched, stack, circuit>>
hkVars == <<dp, size>>
fzVars == <<max_iterations, x, fx, iteration, u, v>>
lsVars == <<tour, best_tour, best_length, improved>>

(* ---------------------------------------------------------------- bounds *)
\* Largest dimension of the instances given to the five solvers of main.py.
MaxN == 4
\* Largest entry of a distance matrix.
MaxDist == 2
\* Largest dimension of the instances given directly to two_opt and three_opt.
LSMaxN == 6
\* Largest dimension of the Euclidean instances given to approx_tsp_tour.
MaxRectN == 6
\* Largest iteration budget handed to fuzzopt (0 is the default, None).
MaxIterArg == 1

(* --------------------------------------------------------------- helpers *)
Min2(a, b) == IF a <= b THEN a ELSE b
Max2(a, b) == IF a >= b THEN a ELSE b
SetMin(S) == CHOOSE m \in S : \A o \in S : m <= o

RECURSIVE Pow2(_)
Pow2(k) == IF k = 0 THEN 1 ELSE 2 * Pow2(k - 1)

Pairs(nn) == {p \in (1..nn) \X (1..nn) : p[1] < p[2]}

\* The symmetric matrices with entries 1..MaxDist off the diagonal.
Matrices(nn) == [Pairs(nn) -> 1..MaxDist]

\* Euclidean instances with whole distances: every city at a corner of a
\* 3 x 4 rectangle (cities may coincide).
Corners == <<<<0, 0>>, <<3, 0>>, <<0, 4>>, <<3, 4>>>>

\* distance(a, b): the Euclidean norm of a - b.
Euclid(a, b) ==
    LET s == (a[1] - b[1]) * (a[1] - b[1]) + (a[2] - b[2]) * (a[2] - b[2])
    IN CHOOSE r \in 0..s : r * r = s

RectMatrices(nn) ==
    {[p \in Pairs(nn) |-> Euclid(Corners[c[p[1]]], Corners[c[p[2]]])] :
        c \in [1..nn -> 1..4]}

\* dist = lambda i, j: distance(CITIES[i-1], CITIES[j-1])
dist(i, j) == IF i = j THEN 0 ELSE D[<<Min2(i, j), Max2(i, j)>>]

RECURSIVE PathLengthFrom(_, _)
PathLengthFrom(t, p) ==
    IF p >= Len(t) THEN 0 ELSE dist(t[p], t[p + 1]) + PathLengthFrom(t, p + 1)

\* path_length: sum over zip(tour, tour[1:])
path_length(t) == PathLengthFrom(t, 1)

\* [1] + list(range(2, n+1)) + [1]
IdentityTour(nn) == [p \in 1..(nn + 1) |-> IF p = nn + 1 THEN 1 ELSE p]

\* All orderings of a finite set, as sequences.
RECURSIVE Perms(_)
Perms(S) ==
    IF S = {} THEN {<<>>}
    ELSE UNION {{<<e>> \o s : s \in Perms(S \ {e})} : e \in S}

\* The closed tours that start and end at city 1.
ToursFrom1(nn) == {<<1>> \o s \o <<1>> : s \in Perms(2..nn)}

ValidTour(t) ==
    /\ Len(t) = n + 1
    /\ t[1] = 1
    /\ t[n + 1] = 1
    /\ \A c \in 1..n : \E p \in 1..n : t[p] = c

\* Brute force: the optimum over all permutations of cities 2..n.
BruteForceOpt == SetMin({path_length(t) : t \in ToursFrom1(n)})

\* Brute force: the cheapest path from 1 through exactly the cities S ending at j,
\* by trying every order of the cities in between.
RECURSIVE CheapestVia(_, _, _)
CheapestVia(cur, rest, end) ==
    IF rest = {} THEN dist(cur, end)
    ELSE SetMin({dist(cur, c) + CheapestVia(c, rest \ {c}, end) : c \in rest})

MinPathCost(S, j) == CheapestVia(1, S \ {j}, j)

(* ------------------------------------------------------------- held_karp *)
\* 1 << (j-2)
Bit(j) == Pow2(j - 2)

\* mask = sum(1 << (j-2) for j in subset)
RECURSIVE MaskOf(_)
MaskOf(S) ==
    IF S = {} THEN 0
    ELSE LET j == CHOOSE e \in S : TRUE IN Bit(j) + MaskOf(S \ {j})

\* The subset of 2..n a mask stands for.
SubsetOf(mask) == {j \in 2..n : (mask \div Bit(j)) % 2 = 1}

\* combinations(range(2, n+1), size)
Combinations(k) == {S \in SUBSET (2..n) : Cardinality(S) = k}

\* base: dp[(1 << (j-2), j)] = dist(1, j)
HKBaseTable == [key \in {<<Bit(j), j>> : j \in 2..n} |-> dist(1, key[2])]

\* prev_mask = mask ^ (1 << (j-2))
\* dp[(mask, j)] = min(dp[(prev_mask, k)] + dist(k, j) for k in subset if k != j)
HKEntry(table, mask, j) ==
    LET prev_mask == mask - Bit(j)
    IN SetMin({table[<<prev_mask, k>>] + dist(k, j) : k \in SubsetOf(prev_mask)})

\* for subset in combinations(..., size): for j in subset: dp[(mask, j)] = ...
HKLayerTable(table, k) ==
    [key \in UNION {{<<MaskOf(S), j>> : j \in S} : S \in Combinations(k)}
        |-> HKEntry(table, key[1], key[2])]

\* full_mask = (1 << (n-1)) - 1
FullMask == Pow2(n - 1) - 1

\* The closing minimum without the edge back to city 1.
HKBestCostOpen(table) == SetMin({table[<<FullMask, j>>] : j \in 2..n})

\* min((dp[(full_mask, j)] + dist(j, 1), j) for j in range(2, n+1))
HKBestCost(table) == SetMin({table[<<FullMask, j>>] + dist(j, 1) : j \in 2..n})

HKBase ==
    /\ alg = "held_karp" /\ pc = "hk_base"
    /\ dp' = HKBaseTable
    /\ size' = 2
    /\ pc' = "hk_fill"
    /\ UNCHANGED <<n, D, alg, primVars, chrVars, fzVars, lsVars, result>>

HKLayer ==
    /\ alg = "held_karp" /\ pc = "hk_fill"
    /\ size < n
    /\ dp' = dp @@ HKLayerTable(dp, size)
    /\ size' = size + 1
    /\ UNCHANGED <<n, D, alg, pc, primVars, chrVars, fzVars, lsVars, result>>

\* The closing min raises ValueError on an empty range (n = 1).
HKClose ==
    /\ alg = "held_karp" /\ pc = "hk_fill"
    /\ size >= n
    /\ IF n < 2
       THEN /\ pc' = "ValueError"
            /\ UNCHANGED result
       ELSE /\ pc' = "returned"
            /\ result' = [length |-> HKBestCost(dp), tour |-> IdentityTour(n)]
    /\ UNCHANGED <<n, D, alg, primVars, chrVars, hkVars, fzVars, lsVars>>

(* ------------------------------------------------ Prim's MST (both users) *)
\* Tuple order of the heap entries (weight, u, v).
TupleLeq(e, o) ==
    \/ e[1] < o[1]
    \/ e[1] = o[1] /\ e[2] < o[2]
    \/ e[1] = o[1] /\ e[2] = o[2] /\ e[3] <= o[3]

\* A heap that pops its greatest entry.
HeapMax(h) == CHOOSE e \in h : \A o \in h : TupleLeq(o, e)

\* heapq.heappop(heap): the least (weight, u, v) tuple.
HeapMin(h) == CHOOSE e \in h : \A o \in h : TupleLeq(e, o)

\* visited = {root}; for v in range(2, n+1): heappush(heap, (dist(root, v), root, v))
PrimInit ==
    /\ alg \in {"approx_mst", "christofides"} /\ pc = "prim_init"
    /\ visited' = {1}
    /\ adj' = [c \in 1..n |-> <<>>]
    /\ heap' = {<<dist(1, w), 1, w>> : w \in 2..n}
    /\ pc' = "prim"
    /\ UNCHANGED <<n, D, alg, chrVars, hkVars, fzVars, lsVars, result>>

\* while heap and len(visited) < n
PrimLoop == heap # {} /\ Cardinality(visited) < n

\* One iteration of the while loop: pop, skip a visited end, else add the edge
\* and push the edges from the new vertex to every unvisited one.
PrimPop ==
    /\ alg \in {"approx_mst", "christofides"} /\ pc = "prim"
    /\ PrimLoop
    /\ LET e == HeapMin(heap)
       IN
         IF e[3] \in visited
         THEN /\ heap' = heap \ {e}
              /\ UNCHANGED <<visited, adj>>
         ELSE /\ visited' = visited \cup {e[3]}
              /\ adj' = [adj EXCEPT ![e[2]] = Append(adj[e[2]], e[3]),
                                    ![e[3]] = Append(adj[e[3]], e[2])]
              /\ heap' = (heap \ {e})
                           \cup {<<dist(e[3], w), e[3], w>> :
                                   w \in (1..n) \ (visited \cup {e[3]})}
    /\ UNCHANGED <<n, D, alg, pc, chrVars, hkVars, fzVars, lsVars, result>>

(* ------------------------------------------------------- approx_tsp_tour *)
\* dfs(u, parent): preorder.append(u); for w in adj[u]: if w != parent: dfs(w, u)
RECURSIVE Dfs(_, _, _), DfsKids(_, _, _, _)
Dfs(a, node, parent) == <<node>> \o DfsKids(a, node, parent, 1)
DfsKids(a, node, parent, k) ==
    IF k > Len(a[node]) THEN <<>>
    ELSE (IF a[node][k] # parent THEN Dfs(a, a[node][k], node) ELSE <<>>)
           \o DfsKids(a, node, parent, k + 1)

\* dfs(root); tour = preorder + [root]
PreorderTour(a) == Dfs(a, 1, 0) \o <<1>>

MSTWalk ==
    /\ alg = "approx_mst" /\ pc = "prim"
    /\ ~PrimLoop
    /\ result' = [length |-> path_length(PreorderTour(adj)),
                  tour |-> PreorderTour(adj)]
    /\ pc' = "returned"
    /\ UNCHANGED <<n, D, alg, primVars, chrVars, hkVars, fzVars, lsVars>>

(* ---------------------------------------------------------- christofides *)
\* odd = [v for v, nbrs in adj.items() if len(nbrs) % 2 == 1]
OddVertices(a) == {c \in DOMAIN a : Len(a[c]) % 2 = 1}

ChrOdd ==
    /\ alg = "christofides" /\ pc = "prim"
    /\ ~PrimLoop
    /\ unmatched' = OddVertices(adj)
    /\ pc' = "match"
    /\ UNCHANGED <<n, D, alg, primVars, stack, circuit, hkVars, fzVars, lsVars, result>>

\* min(unmatched, key=lambda x: dist(u, x)): a nearest one, in any set order.
Nearest(a, S) == {b \in S : \A o \in S : dist(a, b) <= dist(a, o)}

\* One iteration of `while unmatched`: pop any vertex, pair it with a nearest
\* unmatched one; min() of an empty set raises ValueError.
ChrMatch ==
    /\ alg = "christofides" /\ pc = "match"
    /\ unmatched # {}
    /\ \E a \in unmatched :
         LET rest == unmatched \ {a}
         IN IF rest = {}
            THEN /\ pc' = "ValueError"
                 /\ unmatched' = rest
                 /\ UNCHANGED adj
            ELSE \E b \in Nearest(a, rest) :
                   /\ unmatched' = rest \ {b}
                   /\ adj' = [adj EXCEPT ![a] = Append(adj[a], b),
                                         ![b] = Append(adj[b], a)]
                   /\ pc' = "match"
    /\ UNCHANGED <<n, D, alg, visited, heap, stack, circuit, hkVars, fzVars, lsVars, result>>

\* eulerian_tour(adj, start=1): stack = [start]; circuit = []
ChrEulerStart ==
    /\ alg = "christofides" /\ pc = "match"
    /\ unmatched = {}
    /\ stack' = <<1>>
    /\ circuit' = <<>>
    /\ pc' = "euler"
    /\ UNCHANGED <<n, D, alg, primVars, unmatched, hkVars, fzVars, lsVars, result>>

Front(s) == SubSeq(s, 1, Len(s) - 1)
Last(s) == s[Len(s)]
Has(s, e) == \E p \in 1..Len(s) : s[p] = e

\* list.remove(e): drops the first occurrence.
RemoveFirst(s, e) ==
    LET p == CHOOSE q \in 1..Len(s) : s[q] = e /\ \A r \in 1..(q - 1) : s[r] # e
    IN SubSeq(s, 1, p - 1) \o SubSeq(s, p + 1, Len(s))

\* One iteration of `while stack`: consume an edge at the top vertex and
\* descend, or backtrack when it has none left.
ChrEulerStep ==
    /\ alg = "christofides" /\ pc = "euler"
    /\ stack # <<>>
    /\ LET top == Last(stack)
       IN IF adj[top] # <<>>
          THEN LET w == Last(adj[top])
               IN IF Has(adj[w], top)
                  THEN /\ adj' = [adj EXCEPT ![top] = Front(adj[top]),
                                            ![w] = RemoveFirst(adj[w], top)]
                       /\ stack' = Append(stack, w)
                       /\ UNCHANGED <<circuit, pc>>
                  ELSE /\ adj' = [adj EXCEPT ![top] = Front(adj[top])]
                       /\ pc' = "ValueError"
                       /\ UNCHANGED <<stack, circuit>>
          ELSE /\ circuit' = Append(circuit, top)
               /\ stack' = Front(stack)
               /\ UNCHANGED <<adj, pc>>
    /\ UNCHANGED <<n, D, alg, visited, heap, unmatched, hkVars, fzVars, lsVars, result>>

Reverse(s) == [p \in 1..Len(s) |-> s[Len(s) + 1 - p]]

\* for v in circuit: if v not in seen: tour.append(v); seen.add(v)
RECURSIVE Shortcut(_, _, _)
Shortcut(c, p, acc) ==
    IF p > Len(c) THEN acc
    ELSE Shortcut(c, p + 1, IF Has(acc, c[p]) THEN acc ELSE Append(acc, c[p]))

\* The circuit closed without skipping the vertices already seen.
ShortcutTourKeepAll(c) == Reverse(c) \o <<1>>

\* circuit[::-1], shortcut, tour.append(1)
ShortcutTour(c) == Shortcut(Reverse(c), 1, <<>>) \o <<1>>

ChrShortcut ==
    /\ alg = "christofides" /\ pc = "euler"
    /\ stack = <<>>
    /\ result' = [length |-> path_length(ShortcutTour(circuit)),
                  tour |-> ShortcutTour(circuit)]
    /\ pc' = "returned"
    /\ UNCHANGED <<n, D, alg, primVars, chrVars, hkVars, fzVars, lsVars>>

(* ---------------------------------------------------------- local search *)
FuzzAlgs == {"fuzzopt_2opt", "fuzzopt_3opt"}

\* Python list[q]: position q counted from 0.
Py(t, q) == t[q + 1]

\* Python t[a:b] for a, b >= 0: both ends are clamped to the length.
Slice(t, a, b) ==
    LET lo == Min2(a, Len(t))
        hi == Min2(b, Len(t))
    IN [p \in 1..Max2(hi - lo, 0) |-> t[lo + p]]

\* Python t[a:b:-1] for a, b >= 0: both ends are clamped to the last position;
\* it runs from a down to b+1 and is empty when a <= b.
SliceRev(t, a, b) ==
    LET start == Min2(a, Len(t) - 1)
        stop == Min2(b, Len(t) - 1)
    IN [p \in 1..Max2(start - stop, 0) |-> t[start - p + 2]]

\* n = len(tour) - 1; best_tour = tour[:]; best_length = path_length(tsp, best_tour)
LSEntry ==
    /\ pc = "ls_call"
    /\ best_tour' = tour
    /\ best_length' = path_length(tour)
    /\ improved' = TRUE
    /\ pc' = IF alg \in {"two_opt", "fuzzopt_2opt"} THEN "two_opt" ELSE "three_opt"
    /\ UNCHANGED <<n, D, alg, primVars, chrVars, hkVars, fzVars, tour, result>>

(* two_opt *)
TwoOptOld(t, i, j) == dist(Py(t, i - 1), Py(t, i)) + dist(Py(t, j), Py(t, j + 1))
TwoOptNew(t, i, j) == dist(Py(t, i - 1), Py(t, j)) + dist(Py(t, i), Py(t, j + 1))

\* new_tour = tour[:i] + tour[i:j+1][::-1] + tour[j+1:]
TwoOptMove(t, i, j) ==
    Slice(t, 0, i) \o Reverse(Slice(t, i, j + 1)) \o Slice(t, j + 1, Len(t))

\* One sweep: for i in range(1, n-2): for j in range(i+2, n), every candidate
\* taken from `tour`, the best so far kept in (bt, bl).
RECURSIVE TwoOptSweep(_, _, _, _, _)
TwoOptSweep(t, i, j, bt, bl) ==
    IF i > n - 3 THEN [tour |-> bt, length |-> bl]
    ELSE IF j > n - 1 THEN TwoOptSweep(t, i + 1, i + 3, bt, bl)
    ELSE IF /\ TwoOptNew(t, i, j) < TwoOptOld(t, i, j)
            /\ path_length(TwoOptMove(t, i, j)) < bl
         THEN TwoOptSweep(t, i, j + 1, TwoOptMove(t, i, j),
                          path_length(TwoOptMove(t, i, j)))
         ELSE TwoOptSweep(t, i, j + 1, bt, bl)

\* One iteration of `while improved` in two_opt.
TwoOptPass ==
    /\ pc = "two_opt"
    /\ improved
    /\ LET r == TwoOptSweep(tour, 1, 3, best_tour, best_length)
       IN /\ best_tour' = r.tour
          /\ best_length' = r.length
          /\ improved' = (r.length < best_length)
    /\ UNCHANGED <<n, D, alg, pc, primVars, chrVars, hkVars, fzVars, tour, result>>

(* three_opt *)
OrigDist(t, i, j, k) ==
    dist(Py(t, i - 1), Py(t, i)) + dist(Py(t, j - 1), Py(t, j))
        + dist(Py(t, k - 1), Py(t, k))

\* Case 1: dist(a,d) + dist(e,b) + dist(c,f)
NewDist1(t, i, j, k) ==
    dist(Py(t, i - 1), Py(t, j)) + dist(Py(t, k - 1), Py(t, i))
        + dist(Py(t, j - 1), Py(t, k))
\* tour[:i] + tour[j-1:k-1:-1] + tour[i:j] + tour[k:]
Move1(t, i, j, k) ==
    Slice(t, 0, i) \o SliceRev(t, j - 1, k - 1) \o Slice(t, i, j)
        \o Slice(t, k, Len(t))

\* Case 2: dist(a,b) + dist(e,d) + dist(c,f)
NewDist2(t, i, j, k) ==
    dist(Py(t, i - 1), Py(t, i)) + dist(Py(t, k - 1), Py(t, j))
        + dist(Py(t, j - 1), Py(t, k))
\* tour[:i] + tour[j:k] + tour[i:j] + tour[k:]
Move2(t, i, j, k) ==
    Slice(t, 0, i) \o Slice(t, j, k) \o Slice(t, i, j) \o Slice(t, k, Len(t))

\* Case 3: dist(a,d) + dist(c,b) + dist(e,f)
NewDist3(t, i, j, k) ==
    dist(Py(t, i - 1), Py(t, j)) + dist(Py(t, j - 1), Py(t, i))
        + dist(Py(t, k - 1), Py(t, k))
\* tour[:i] + tour[j-1:i-1:-1] + tour[k-1:j-1:-1] + tour[k:]
Move3(t, i, j, k) ==
    Slice(t, 0, i) \o SliceRev(t, j - 1, i - 1) \o SliceRev(t, k - 1, j - 1)
        \o Slice(t, k, Len(t))

\* Case 4: dist(a,f) + dist(c,d) + dist(e,b)
NewDist4(t, i, j, k) ==
    dist(Py(t, i - 1), Py(t, k)) + dist(Py(t, j - 1), Py(t, j))
        + dist(Py(t, k - 1), Py(t, i))
\* tour[:i] + tour[k-1:j-1:-1] + tour[j:i:-1] + tour[k:]
Move4(t, i, j, k) ==
    Slice(t, 0, i) \o SliceRev(t, k - 1, j - 1) \o SliceRev(t, j, i)
        \o Slice(t, k, Len(t))

\* The body of the innermost loop at (i, j, k): the first case that lowers the
\* three-edge sum is taken.
ThreeOptAt(t, i, j, k) ==
    IF NewDist1(t, i, j, k) < OrigDist(t, i, j, k)
      THEN [kind |-> "move", case |-> 1, tour |-> Move1(t, i, j, k)]
    ELSE IF NewDist2(t, i, j, k) < OrigDist(t, i, j, k)
      THEN [kind |-> "move", case |-> 2, tour |-> Move2(t, i, j, k)]
    ELSE IF NewDist3(t, i, j, k) < OrigDist(t, i, j, k)
      THEN [kind |-> "move", case |-> 3, tour |-> Move3(t, i, j, k)]
    ELSE IF NewDist4(t, i, j, k) < OrigDist(t, i, j, k)
      THEN [kind |-> "move", case |-> 4, tour |-> Move4(t, i, j, k)]
    ELSE [kind |-> "none", case |-> 0, tour |-> t]

\* for i in range(1, n-4): for j in range(i+2, n-2): for k in range(j+2, n),
\* up to the first accepted move (the breaks); reading tour[k] past the end of
\* the list raises IndexError.
RECURSIVE ThreeOptScan(_, _, _, _)
ThreeOptScan(t, i, j, k) ==
    IF i > n - 5 THEN [kind |-> "none", case |-> 0, tour |-> t]
    ELSE IF j > n - 3 THEN ThreeOptScan(t, i + 1, i + 3, i + 5)
    ELSE IF k > n - 1 THEN ThreeOptScan(t, i, j + 1, j + 3)
    ELSE IF k >= Len(t) THEN [kind |-> "IndexError", case |-> 0, tour |-> t]
    ELSE IF ThreeOptAt(t, i, j, k).kind = "move" THEN ThreeOptAt(t, i, j, k)
    ELSE ThreeOptScan(t, i, j, k + 1)

\* One iteration of `while improved` in three_opt; an accepted move replaces
\* best_tour and then tour.
ThreeOptPass ==
    /\ pc = "three_opt"
    /\ improved
    /\ LET r == ThreeOptScan(tour, 1, 3, 5)
       IN CASE r.kind = "move" ->
                 /\ best_tour' = r.tour
                 /\ best_length' = path_length(r.tour)
                 /\ tour' = r.tour
                 /\ UNCHANGED <<improved, pc>>
            [] r.kind = "IndexError" ->
                 /\ pc' = "IndexError"
                 /\ UNCHANGED <<tour, best_tour, best_length, improved>>
            [] OTHER ->
                 /\ improved' = FALSE
                 /\ UNCHANGED <<tour, best_tour, best_length, pc>>
    /\ UNCHANGED <<n, D, alg, primVars, chrVars, hkVars, fzVars, result>>

\* return best_tour, best_length
LSReturn ==
    /\ pc \in {"two_opt", "three_opt"}
    /\ ~improved
    /\ IF alg \in FuzzAlgs
       THEN /\ pc' = "fz_accept"
            /\ UNCHANGED result
       ELSE /\ pc' = "returned"
            /\ result' = [length |-> best_length, tour |-> best_tour]
    /\ UNCHANGED <<n, D, alg, primVars, chrVars, hkVars, fzVars, lsVars>>

(* --------------------------------------------------------------- fuzzopt *)
\* x = [1] + permutation(range(2, n+1)) + [1]; max_iterations = max_iterations or n
FzInit ==
    /\ alg \in FuzzAlgs /\ pc = "fz_init"
    /\ x' \in ToursFrom1(n)
    /\ fx' = path_length(x')
    /\ max_iterations' = IF max_iterations = 0 THEN n ELSE max_iterations
    /\ iteration' = 0
    /\ pc' = "fz_loop"
    /\ UNCHANGED <<n, D, alg, primVars, chrVars, hkVars, u, v, lsVars, result>>

\* u, v = randint(1, n-1), randint(1, n-1); randint of an empty range raises.
FzDraw ==
    /\ alg \in FuzzAlgs /\ pc = "fz_loop"
    /\ iteration < max_iterations
    /\ IF n - 1 < 1
       THEN /\ pc' = "ValueError"
            /\ UNCHANGED <<u, v>>
       ELSE /\ u' \in 1..(n - 1)
            /\ v' \in 1..(n - 1)
            /\ pc' = "fz_redraw"
    /\ UNCHANGED <<n, D, alg, primVars, chrVars, hkVars, max_iterations, x, fx,
                   iteration, lsVars, result>>

\* while u == v: v = randint(1, n-1)
FzRedraw ==
    /\ alg \in FuzzAlgs /\ pc = "fz_redraw"
    /\ u = v
    /\ v' \in 1..(n - 1)
    /\ UNCHANGED <<n, D, alg, pc, primVars, chrVars, hkVars, max_iterations, x, fx,
                   iteration, u, lsVars, result>>

\* xn[u], xn[v] = xn[v], xn[u]
Swap(t, a, b) == [t EXCEPT ![a + 1] = t[b + 1], ![b + 1] = t[a + 1]]

\* xn = x[:]; swap; local_search(tsp, xn, distance_matrix)
FzSwap ==
    /\ alg \in FuzzAlgs /\ pc = "fz_redraw"
    /\ u # v
    /\ tour' = Swap(x, u, v)
    /\ pc' = "ls_call"
    /\ UNCHANGED <<n, D, alg, primVars, chrVars, hkVars, fzVars,
                   best_tour, best_length, improved, result>>

\* if fn < fx: x = xn[:]; fx = fn
FzAccept ==
    /\ alg \in FuzzAlgs /\ pc = "fz_accept"
    /\ IF best_length < fx
       THEN x' = best_tour /\ fx' = best_length
       ELSE UNCHANGED <<x, fx>>
    /\ iteration' = iteration + 1
    /\ pc' = "fz_loop"
    /\ UNCHANGED <<n, D, alg, primVars, chrVars, hkVars, max_iterations, u, v,
                   lsVars, result>>

\* return fx, x
FzReturn ==
    /\ alg \in FuzzAlgs /\ pc = "fz_loop"
    /\ iteration >= max_iterations
    /\ result' = [length |-> fx, tour |-> x]
    /\ pc' = "returned"
    /\ UNCHANGED <<n, D, alg, primVars, chrVars, hkVars, fzVars, lsVars>>

(* ------------------------------------------------------------------ Init *)
NoResult == [length |-> 0, tour |-> <<>>]

InitRest ==
    /\ visited = {} /\ adj = <<>> /\ heap = {}
    /\ unmatched = {} /\ stack = <<>> /\ circuit = <<>>
    /\ dp = <<>> /\ size = 0
    /\ x = <<>> /\ fx = 0 /\ iteration = 0 /\ u = 0 /\ v = 0
    /\ tour = <<>> /\ best_tour = <<>> /\ best_length = 0 /\ improved = FALSE
    /\ result = NoResult

\* main.py selects one solver for an instance; fuzzopt may be given an
\* iteration budget (0 stands for None).
Solvers == {"held_karp", "christofides", "approx_mst", "fuzzopt_2opt", "fuzzopt_3opt"}

Entry(a) ==
    CASE a = "held_karp" -> "hk_base"
      [] a \in {"christofides", "approx_mst"} -> "prim_init"
      [] a \in FuzzAlgs -> "fz_init"
      [] OTHER -> "ls_call"

Init ==
    /\ n \in 1..MaxN
    /\ D \in Matrices(n)
    /\ alg \in Solvers
    /\ pc = Entry(alg)
    /\ max_iterations \in (IF alg \in FuzzAlgs THEN 0..MaxIterArg ELSE {0})
    /\ InitRest

HKNext == HKBase \/ HKLayer \/ HKClose
MSTNext == PrimInit \/ PrimPop \/ MSTWalk
ChrNext == ChrOdd \/ ChrMatch \/ ChrEulerStart \/ ChrEulerStep \/ ChrShortcut
LSNext == LSEntry \/ TwoOptPass \/ ThreeOptPass \/ LSReturn
FzNext == FzInit \/ FzDraw \/ FzRedraw \/ FzSwap \/ FzAccept \/ FzReturn

Next == HKNext \/ MSTNext \/ ChrNext \/ LSNext \/ FzNext

Spec == Init /\ [][Next]_vars

\* Every solver is one synchronous call: a step that can be taken is taken.
FairSpec == Spec /\ WF_vars(Next)

\* two_opt or three_opt called directly on the canonical tour of an instance;
\* every labelling of the cities is among the matrices.
LSMatrices(nn) == Matrices(nn) \cup RectMatrices(nn)

LSCall ==
    /\ alg \in {"two_opt", "three_opt"}
    /\ pc = Entry(alg)
    /\ max_iterations = 0
    /\ visited = {} /\ adj = <<>> /\ heap = {}
    /\ unmatched = {} /\ stack = <<>> /\ circuit = <<>>
    /\ dp = <<>> /\ size = 0
    /\ x = <<>> /\ fx = 0 /\ iteration = 0 /\ u = 0 /\ v = 0
    /\ tour = IdentityTour(n)
    /\ best_tour = <<>> /\ best_length = 0 /\ improved = FALSE
    /\ result = NoResult

InitLS ==
    /\ n \in MaxN..LSMaxN
    /\ D \in LSMatrices(n)
    /\ LSCall

SpecLS == InitLS /\ [][LSNext]_vars

\* The same calls on the rectangle instances alone; a call runs on until it
\* returns or raises.
InitLSRect ==
    /\ n \in MaxN..LSMaxN
    /\ D \in RectMatrices(n)
    /\ LSCall

FairSpecLSRect == InitLSRect /\ [][LSNext]_vars /\ WF_vars(LSNext)

\* held_karp alone, on every matrix of up to MaxN cities and every rectangle
\* instance of one city more.
InitHK ==
    /\ \/ n \in 1..MaxN /\ D \in Matrices(n)
       \/ n \in 1..(MaxN + 1) /\ D \in RectMatrices(n)
    /\ alg = "held_karp"
    /\ pc = Entry(alg)
    /\ max_iterations = 0
    /\ InitRest

SpecHK == InitHK /\ [][HKNext]_vars

\* Symmetric, zero diagonal, triangle inequality.
IsMetric(nn, m) ==
    \A i \in 1..nn, j \in 1..nn, k \in 1..nn :
        (i < j /\ j # k /\ i # k) =>
            m[<<i, j>>] <= m[<<Min2(i, k), Max2(i, k)>>] + m[<<Min2(k, j), Max2(k, j)>>]

\* approx_tsp_tour alone, on metric instances: every metric matrix of up to
\* MaxN cities, and every rectangle instance of up to MaxRectN cities.
InitMST ==
    /\ \/ n \in 1..MaxN /\ D \in {m \in Matrices(n) : IsMetric(n, m)}
       \/ n \in 1..MaxRectN /\ D \in RectMatrices(n)
    /\ alg = "approx_mst"
    /\ pc = Entry(alg)
    /\ max_iterations = 0
    /\ InitRest

SpecMST == InitMST /\ [][MSTNext]_vars

HeldKarpOptimal ==
    (alg = "held_karp" /\ pc = "returned") =>
        /\ result.length = BruteForceOpt
        /\ \A S \in SUBSET (2..n) : \A j \in S :
              /\ <<MaskOf(S), j>> \in DOMAIN dp
              /\ dp[<<MaskOf(S), j>>] = MinPathCost(S, j)

\* held_karp returned on an instance whose optimum beats the tour 1,2,..,n,1.
HeldKarpWitness ==
    /\ alg = "held_karp" /\ pc = "returned" /\ n >= 4
    /\ result.length < path_length(IdentityTour(n))

\* C3: the tour held_karp returns has, summed edge by edge, the cost it
\* returns.
HeldKarpTourHasCost ==
    (alg = "held_karp" /\ pc = "returned")
        => path_length(result.tour) = result.length

LSInput == IF alg \in FuzzAlgs THEN Swap(x, u, v) ELSE IdentityTour(n)

\* C5: in two_opt and three_opt the best length never exceeds the input
\* tour's length and is the length of the best tour, after every pass and at
\* the return.
LocalSearchNeverWorse ==
    (alg \in {"two_opt", "three_opt"} /\ pc \in {"two_opt", "three_opt", "returned"})
        => /\ best_length <= path_length(LSInput)
           /\ best_length = path_length(best_tour)
           /\ (pc = "returned" => result = [length |-> best_length, tour |-> best_tour])

\* C6: in three_opt the current tour stays a valid tour after every accepted
\* move, and so does the tour returned.
ThreeOptKeepsTourValid ==
    (alg = "three_opt" /\ pc \in {"three_opt", "returned"})
        => /\ ValidTour(tour)
           /\ ValidTour(best_tour)

\* C7: the tour two_opt returns cannot be shortened by reversing any segment
\* tour[i..j], 1 <= i < j <= n-1.
TwoOptLocallyOptimal ==
    (alg = "two_opt" /\ pc = "returned")
        => \A i \in 1..(n - 1), j \in 1..(n - 1) :
             i < j => path_length(TwoOptMove(result.tour, i, j)) >= result.length

\* C8: on a single city every solver returns length 0 and tour [1,1] and
\* raises nothing.
SingleCityReturns ==
    n = 1 =>
        /\ pc \notin {"ValueError", "IndexError"}
        /\ (pc = "returned" => result = [length |-> 0, tour |-> <<1, 1>>])

\* C9: fuzzopt terminates: it completes its max_iterations iterations and
\* returns.
FuzzoptTerminates ==
    (alg \in FuzzAlgs) => <>(pc = "returned" /\ iteration = max_iterations)

\* C10: three_opt terminates: it reaches a scan that accepts nothing and
\* returns, without reading past the end of the tour.
ThreeOptTerminates ==
    (alg = "three_opt") => <>(pc = "returned")

====
